---- MODULE Spec2Model ----
(***************************************************************************)
(* Genetic search over library orderings (src/genetic.py).                 *)
(*                                                                         *)
(* A Chromosome is an ordering of all libraries of an instance plus the    *)
(* derived fields split and score; every Library object carries the        *)
(* scratch field books_chosen_num.  Library objects are referenced, so a   *)
(* chromosome is modelled by                                               *)
(*    libraries : the ordering, a sequence of library ids                  *)
(*    obj       : id -> identity tag of the Library object it references   *)
(*    num       : id -> books_chosen_num read through that reference       *)
(*    split, score                                                         *)
(* Two chromosomes reference the same Library object for id i exactly when *)
(* their obj[i] agree; a write of books_chosen_num is then visible through *)
(* both (WriteThrough).                                                    *)
(***************************************************************************)
EXTENDS Integers, Sequences, FiniteSets, TLC

VARIABLES
    inst,        \* index of the problem instance in Instances
    cpus,        \* what cpu_count() returns on the machine genetic() runs on
    size,        \* genetic(size=...)
    iterations,  \* genetic(iterations=...)
    k,           \* genetic(k=...)
    mutations,   \* genetic(mutations=...)
    population,  \* the list `population`
    pre,         \* results of the tournament_and_crossover tasks gathered so far
    result,      \* the best-ever snapshot `result`
    pc,          \* position in genetic()
    iteration,   \* loop variable of `for iteration in range(iterations)`
    idx,         \* number of mutate tasks of the current phase already returned
    kill_now,    \* monitor.kill_now
    maxScanned,  \* history: greatest score seen by the best-tracking scans
    killGen,     \* history: generation in progress when kill_now was set, -1 if not
    polls,       \* history: number of reads of monitor.kill_now
    tracked,     \* history: number of generations whose best-tracking scan is done
    prevBest,    \* history: result.score before the latest best-tracking scan
    lastT,       \* history: the latest tournament (sampled indices, winner)
    last         \* history: the latest operation applied directly (SpecOps)

vars == <<inst, cpus, size, iterations, k, mutations, population, pre, result, pc,
          iteration, idx, kill_now, maxScanned, killGen, polls, tracked, prevBest,
          lastT, last>>

(***************************************************************************)
(* Bounds of the model.                                                    *)
(***************************************************************************)
MaxSize == 2
MaxIterations == 2
MaxMutations == 1
MaxTimes == 2
MaxCpus == 4

(***************************************************************************)
(* Problem instances.  Library ids are positions in libs, book ids are     *)
(* positions in scores.                                                    *)
(*   1: the scenario of the specification (A, B, C, budget 2)              *)
(*   2: three libraries, the score depends on the order (9, 10 or 11)      *)
(*   3: no library can claim anything (sign-up never ends within budget)   *)
(*   4: every book scores 0, two libraries can never claim                 *)
(*   5: four libraries, the score depends on the order, libraries that     *)
(*      claim nothing between libraries that do                            *)
(***************************************************************************)
Instances ==
    << [days |-> 2,
        libs |-> << [signup |-> 0, perday |-> 2, books |-> {1, 2}],
                    [signup |-> 1, perday |-> 1, books |-> {3}],
                    [signup |-> 5, perday |-> 5, books |-> {1}] >>,
        scores |-> <<1, 1, 5>>],
       [days |-> 4,
        libs |-> << [signup |-> 1, perday |-> 1, books |-> {1, 2}],
                    [signup |-> 1, perday |-> 1, books |-> {3, 4}],
                    [signup |-> 2, perday |-> 1, books |-> {5}] >>,
        scores |-> <<3, 2, 4, 1, 6>>],
       [days |-> 1,
        libs |-> << [signup |-> 1, perday |-> 1, books |-> {1}],
                    [signup |-> 2, perday |-> 1, books |-> {2}],
                    [signup |-> 1, perday |-> 2, books |-> {1, 2}] >>,
        scores |-> <<2, 3>>],
       [days |-> 2,
        libs |-> << [signup |-> 1, perday |-> 1, books |-> {1, 2}],
                    [signup |-> 2, perday |-> 1, books |-> {1}],
                    [signup |-> 3, perday |-> 2, books |-> {2}] >>,
        scores |-> <<0, 0>>],
       [days |-> 4,
        libs |-> << [signup |-> 1, perday |-> 1, books |-> {1, 2}],
                    [signup |-> 1, perday |-> 1, books |-> {1}],
                    [signup |-> 1, perday |-> 2, books |-> {2}],
                    [signup |-> 2, perday |-> 1, books |-> {3, 4}] >>,
        scores |-> <<3, 2, 4, 1>>] >>

AllInstances == 1..Len(Instances)
\* instances whose populations the evolution loop is run on (three libraries each)
LoopInstances == {i \in AllInstances : Len(Instances[i].libs) = 3}

NumLibs(I) == Len(I.libs)
Ids(I) == 1..NumLibs(I)

(***************************************************************************)
(* Helpers on sequences.                                                   *)
(***************************************************************************)
Range(s) == {s[i] : i \in 1..Len(s)}

Max(a, b) == IF a > b THEN a ELSE b

Min(a, b) == IF a < b THEN a ELSE b

Reverse(s) == [i \in 1..Len(s) |-> s[Len(s) + 1 - i]]

\* all orderings of the ids 1..n
Orderings(n) == {p \in [1..n -> 1..n] : \A i, j \in 1..n : i # j => p[i] # p[j]}

IsPermutation(s, n) == /\ Len(s) = n
                       /\ Range(s) = 1..n

RECURSIVE SumScores(_, _)
SumScores(I, books) ==
    IF books = {} THEN 0
    ELSE LET b == CHOOSE x \in books : TRUE
         IN  I.scores[b] + SumScores(I, books \ {b})

(***************************************************************************)
(* common.get_scanable_books: the books a library claims when its sign-up  *)
(* starts at day `start`: the not yet scanned books, best score first, as  *)
(* many as fit in the days left after sign-up.                             *)
(***************************************************************************)
Best(I, books) ==
    CHOOSE b \in books : \A c \in books :
        \/ I.scores[b] > I.scores[c]
        \/ I.scores[b] = I.scores[c] /\ b <= c

RECURSIVE TopBooks(_, _, _)
TopBooks(I, books, n) ==
    IF n <= 0 \/ books = {} THEN {}
    ELSE LET b == Best(I, books)
         IN  {b} \cup TopBooks(I, books \ {b}, n - 1)

get_scanable_books(I, id, start, books_scanned) ==
    LET library == I.libs[id]
        left    == I.days - start - library.signup
    IN  IF left <= 0 THEN {}
        ELSE TopBooks(I, library.books \ books_scanned, left * library.perday)

(***************************************************************************)
(* Chromosome.calculate_split_and_score.  st carries the locals start, sc, *)
(* books_scanned and the fields written: self.split and each library's     *)
(* books_chosen_num.  self.split is only assigned when a library claims    *)
(* something: it enters the loop with the value the object already holds.  *)
(***************************************************************************)
\* the loop body with a split that is only ever raised
EvalStepSplitGrows(I, st, it, id) ==
    LET books == get_scanable_books(I, id, st.start, st.scanned)
    IN  IF books = {}
        THEN [st EXCEPT !.num[id] = 0]
        ELSE [start   |-> st.start + I.libs[id].signup,
              sc      |-> st.sc + SumScores(I, books),
              scanned |-> st.scanned \cup books,
              split   |-> Max(st.split, it),
              num     |-> [st.num EXCEPT ![id] = Cardinality(books)]]

EvalStep(I, st, it, id) ==
    LET books == get_scanable_books(I, id, st.start, st.scanned)
    IN  IF books = {}
        THEN [st EXCEPT !.num[id] = 0]
        ELSE [start   |-> st.start + I.libs[id].signup,
              sc      |-> st.sc + SumScores(I, books),
              scanned |-> st.scanned \cup books,
              split   |-> it,
              num     |-> [st.num EXCEPT ![id] = Cardinality(books)]]

RECURSIVE EvalLoop(_, _, _, _)
EvalLoop(I, libraries, it, st) ==
    IF it > Len(libraries) THEN st
    ELSE EvalLoop(I, libraries, it + 1, EvalStep(I, st, it, libraries[it]))

calculate_split_and_score(I, c) ==
    LET st == EvalLoop(I, c.libraries, 1,
                       [start |-> 0, sc |-> 0, scanned |-> {},
                        split |-> c.split, num |-> c.num])
    IN  [c EXCEPT !.split = st.split, !.score = st.sc, !.num = st.num]

\* common.score(libs, days): the score of an ordering, nothing written
score(I, libraries) ==
    EvalLoop(I, libraries, 1,
             [start |-> 0, sc |-> 0, scanned |-> {}, split |-> 0,
              num |-> [i \in Ids(I) |-> 0]]).sc

\* what the specification's evaluator returns: the last claiming position, 0 if none
LastClaiming(I, libraries) ==
    EvalLoop(I, libraries, 1,
             [start |-> 0, sc |-> 0, scanned |-> {}, split |-> 0,
              num |-> [i \in Ids(I) |-> 0]]).split

(***************************************************************************)
(* Chromosome.__init__ / ChromosomeInitialized.__init__: deep copies of    *)
(* the instance's libraries (objects tagged `tag`), in the given order,    *)
(* split = score = 0, then one evaluation.  shuffle and choice(methods)    *)
(* can produce every ordering.                                             *)
(***************************************************************************)
Chromosome(I, order, tag) ==
    calculate_split_and_score(I,
        [libraries |-> order,
         obj       |-> [i \in Ids(I) |-> tag],
         num       |-> [i \in Ids(I) |-> 0],
         split     |-> 0,
         score     |-> 0])

ChromosomeInitialized(I, tag) == {Chromosome(I, p, tag) : p \in Orderings(NumLibs(I))}

\* deepcopy / a pickle round trip of one chromosome: fresh Library objects
deepcopy(c, tag) == [c EXCEPT !.obj = [i \in DOMAIN c.obj |-> tag]]

\* the books_chosen_num fields y reads after x's libraries were rewritten to xNew.num
WriteThrough(y, x, xNew) ==
    [y EXCEPT !.num = [i \in DOMAIN y.num |->
                          IF y.obj[i] = x.obj[i] THEN xNew.num[i] ELSE y.num[i]]]

(***************************************************************************)
(* Chromosome.mutate: one attempt.  An outcome is [ok, c]; ok = FALSE is   *)
(* the ValueError of randrange(0, 0) when split is 0.  Positions are       *)
(* 1-based: a in [0, split) is 1..split, b in [split, N) is split+1..N.    *)
(***************************************************************************)
Swap(libs, a, b) == [libs EXCEPT ![a] = libs[b], ![b] = libs[a]]

AcceptInverted(sc, current) == sc < current

Accept(sc, current) == sc > current

ChromosomeMutate(I, c) ==
    LET c1 == calculate_split_and_score(I, c)
        n  == Len(c1.libraries)
        lo == IF c1.split # n THEN c1.split + 1 ELSE 1
    IN  IF c1.split = 0
        THEN {[ok |-> FALSE, c |-> c1]}
        ELSE {[ok |-> TRUE,
               c  |-> IF Accept(score(I, Swap(c1.libraries, a, b)), c1.score)
                      THEN [c1 EXCEPT !.libraries = Swap(c1.libraries, a, b)]
                      ELSE c1] : a \in 1..c1.split, b \in lo..n}

(***************************************************************************)
(* mutate(c, times): `times` attempts, each followed by an evaluation.     *)
(* An outcome is [ok, c, trace]; trace lists the score evaluated after     *)
(* each completed attempt.                                                 *)
(***************************************************************************)
RECURSIVE mutate(_, _, _)
mutate(I, c, times) ==
    IF times = 0 THEN {[ok |-> TRUE, c |-> c, trace |-> <<>>]}
    ELSE UNION {
           IF ~o.ok THEN {[ok |-> FALSE, c |-> o.c, trace |-> <<>>]}
           ELSE LET c2 == calculate_split_and_score(I, o.c)
                IN  {[ok |-> r.ok, c |-> r.c, trace |-> <<c2.score>> \o r.trace] :
                        r \in mutate(I, c2, times - 1)}
           : o \in ChromosomeMutate(I, c)}

(***************************************************************************)
(* Chromosome.reorder_libraries: the positions below split whose library   *)
(* has books_chosen_num 0, taken from the highest down, each popped and    *)
(* appended.                                                               *)
(***************************************************************************)
Kickoffs(c) ==
    SelectSeq([j \in 1..c.split |-> j], LAMBDA j : c.num[c.libraries[j]] = 0)

PopAppend(libs, j) ==
    SubSeq(libs, 1, j - 1) \o SubSeq(libs, j + 1, Len(libs)) \o <<libs[j]>>

RECURSIVE ApplyKickoffs(_, _)
ApplyKickoffs(libs, ks) ==
    IF ks = <<>> THEN libs
    ELSE ApplyKickoffs(PopAppend(libs, Head(ks)), Tail(ks))

reorder_ascending(c) ==
    [c EXCEPT !.libraries = ApplyKickoffs(c.libraries, Kickoffs(c))]

reorder_libraries(c) ==
    [c EXCEPT !.libraries = ApplyKickoffs(c.libraries, Reverse(Kickoffs(c)))]

(***************************************************************************)
(* crossover(a, b) at cut `point`.  ap and bp are deep copies (objects     *)
(* tagged tagA, tagB); a child keeps its own copy's head and appends the   *)
(* other copy's (id, library) tuples: the Library objects of the other     *)
(* copy.  split, score of a child are those of the copy it was built in.   *)
(***************************************************************************)
CrossChildOtherIds(own, other, point) ==
    SubSeq(own, 1, point) \o
    SelectSeq(other, LAMBDA id : id \notin Range(SubSeq(other, 1, point)))

CrossChild(own, other, point) ==
    SubSeq(own, 1, point) \o
    SelectSeq(other, LAMBDA id : id \notin Range(SubSeq(own, 1, point)))

\* the cut points randrange(1, split) can return; none when min split < 2
CrossoverPoints(a, b) == 1..(Min(a.split, b.split) - 1)

crossover(a, b, point, tagA, tagB) ==
    LET ap     == reorder_libraries(deepcopy(a, tagA))
        bp     == reorder_libraries(deepcopy(b, tagB))
        a_ids  == Range(SubSeq(ap.libraries, 1, point))
        b_ids  == Range(SubSeq(bp.libraries, 1, point))
        a_libs == CrossChild(ap.libraries, bp.libraries, point)
        b_libs == CrossChild(bp.libraries, ap.libraries, point)
    IN  [ok |-> /\ Len(a_libs) = Len(b_libs)
                /\ Len(b_libs) = Len(ap.libraries)
                /\ Len(ap.libraries) = Len(bp.libraries),
         ap |-> [ap EXCEPT
                   !.libraries = a_libs,
                   !.obj = [i \in DOMAIN ap.obj |-> IF i \in a_ids THEN tagA ELSE tagB],
                   !.num = [i \in DOMAIN ap.num |->
                               IF i \in a_ids THEN ap.num[i] ELSE bp.num[i]]],
         bp |-> [bp EXCEPT
                   !.libraries = b_libs,
                   !.obj = [i \in DOMAIN bp.obj |-> IF i \in b_ids THEN tagB ELSE tagA],
                   !.num = [i \in DOMAIN bp.num |->
                               IF i \in b_ids THEN bp.num[i] ELSE ap.num[i]]]]

(***************************************************************************)
(* tournament(chromosomes, k).  `chosen` is the result of sample(): k      *)
(* distinct positions of the population, in sampling order.  m starts as   *)
(* (0, 0), here position 1 of chosen with score 0.                         *)
(***************************************************************************)
Samples(n, kk) == {s \in [1..kk -> 1..n] : \A i, j \in 1..kk : i # j => s[i] # s[j]}

RECURSIVE TournamentLoopLast(_, _, _, _)
TournamentLoopLast(chromosomes, chosen, it, m) ==
    IF it > Len(chosen) THEN m
    ELSE TournamentLoopLast(chromosomes, chosen, it + 1,
                            IF chromosomes[chosen[it]].score >= m[2]
                            THEN <<it, chromosomes[chosen[it]].score>>
                            ELSE m)

RECURSIVE TournamentLoop(_, _, _, _)
TournamentLoop(chromosomes, chosen, it, m) ==
    IF it > Len(chosen) THEN m
    ELSE TournamentLoop(chromosomes, chosen, it + 1,
                        IF chromosomes[chosen[it]].score > m[2]
                        THEN <<it, chromosomes[chosen[it]].score>>
                        ELSE m)

\* the position in `chromosomes` of the chromosome returned
tournament(chromosomes, chosen) ==
    chosen[TournamentLoop(chromosomes, chosen, 1, <<1, 0>>)[1]]

(***************************************************************************)
(* Values of the history variables.                                        *)
(***************************************************************************)
NoChromosome == [libraries |-> <<>>, obj |-> <<>>, num |-> <<>>, split |-> 0, score |-> 0]

NoOp == [op |-> "none", who |-> 0, before |-> NoChromosome, sc0 |-> 0,
         trace |-> <<>>, ok |-> TRUE]

NoTournament == [chosen |-> <<>>, winner |-> 0]

loopVars == <<size, iterations, k, mutations, pre, result, iteration, idx,
              kill_now, maxScanned, killGen, polls, tracked, prevBest, lastT>>

(***************************************************************************)
(* SpecOps: the operations of Chromosome and the module functions applied  *)
(* in any order to two chromosomes constructed for the same instance (to   *)
(* one chromosome, without crossover, for the four-library instance).      *)
(***************************************************************************)
InitOps ==
    /\ inst \in AllInstances
    /\ population \in
          IF inst \in LoopInstances
          THEN {<<a, b>> : a \in ChromosomeInitialized(Instances[inst], 1),
                           b \in ChromosomeInitialized(Instances[inst], 2)}
          ELSE {<<a>> : a \in ChromosomeInitialized(Instances[inst], 1)}
    /\ pc = "ops"
    /\ last = NoOp
    /\ cpus = 1
    /\ size = 2 /\ iterations = 0 /\ k = 1 /\ mutations = 0
    /\ pre = <<>> /\ result = NoChromosome /\ iteration = 0 /\ idx = 0
    /\ kill_now = FALSE /\ maxScanned = 0 /\ killGen = -1 /\ polls = 0 /\ tracked = 0
    /\ prevBest = 0
    /\ lastT = NoTournament

\* c.calculate_split_and_score() on population[x]
OpEvaluate(x) ==
    LET I  == Instances[inst]
        c  == population[x]
        c2 == calculate_split_and_score(I, c)
    IN  /\ pc = "ops"
        /\ population' = [y \in DOMAIN population |-> IF y = x THEN c2
                                         ELSE WriteThrough(population[y], c, c2)]
        /\ last' = [NoOp EXCEPT !.op = "evaluate", !.who = x, !.before = c,
                                !.sc0 = c.score]
        /\ UNCHANGED <<inst, cpus, pc, loopVars>>

\* mutate(population[x], times)
OpMutate(x, times) ==
    LET I == Instances[inst]
        c == population[x]
    IN  /\ pc = "ops"
        /\ \E o \in mutate(I, c, times) :
              /\ population' = [y \in DOMAIN population |-> IF y = x THEN o.c
                                               ELSE WriteThrough(population[y], c, o.c)]
              /\ last' = [op |-> "mutate", who |-> x, before |-> c,
                          sc0 |-> score(I, c.libraries), trace |-> o.trace,
                          ok |-> o.ok]
        /\ UNCHANGED <<inst, cpus, pc, loopVars>>

\* population[x].reorder_libraries()
OpReorder(x) ==
    /\ pc = "ops"
    /\ population' = [population EXCEPT ![x] = reorder_libraries(population[x])]
    /\ last' = [NoOp EXCEPT !.op = "reorder", !.who = x, !.before = population[x]]
    /\ UNCHANGED <<inst, cpus, pc, loopVars>>

\* population = crossover(population[i], population[j]), cut at `point`
OpCrossover(i, j) ==
    /\ pc = "ops"
    /\ Len(population) = 2
    /\ \E point \in CrossoverPoints(population[i], population[j]) :
          LET r == crossover(population[i], population[j], point, 1, 2)
          IN  /\ population' = IF r.ok THEN <<r.ap, r.bp>> ELSE population
              /\ last' = [NoOp EXCEPT !.op = "crossover", !.who = point, !.ok = r.ok]
    /\ UNCHANGED <<inst, cpus, pc, loopVars>>

\* crossover(population[i], population[j]) raising: randrange(1, split), split < 2
OpCrossoverFails(i, j) ==
    /\ pc = "ops"
    /\ Len(population) = 2
    /\ CrossoverPoints(population[i], population[j]) = {}
    /\ last' = [NoOp EXCEPT !.op = "crossover", !.ok = FALSE]
    /\ UNCHANGED <<inst, cpus, pc, population, loopVars>>

NextOps ==
    \/ \E x \in DOMAIN population : OpEvaluate(x)
    \/ \E x \in DOMAIN population, times \in 1..MaxTimes : OpMutate(x, times)
    \/ \E x \in DOMAIN population : OpReorder(x)
    \/ \E i, j \in DOMAIN population : OpCrossover(i, j)
    \/ \E i, j \in DOMAIN population : OpCrossoverFails(i, j)

SpecOps == InitOps /\ [][NextOps]_vars

(***************************************************************************)
(* genetic(): the evolution loop.                                          *)
(***************************************************************************)
BetterOrEqual(s, best) == s >= best

Better(s, best) == s > best

\* `for pop in population: if pop.score > result.score: result = deepcopy(pop)`
RECURSIVE BestScan(_, _, _)
BestScan(chromosomes, i, res) ==
    IF i > Len(chromosomes) THEN res
    ELSE BestScan(chromosomes, i + 1,
                  IF Better(chromosomes[i].score, res.score)
                  THEN deepcopy(chromosomes[i], 0)
                  ELSE res)

\* the scan restarted from the first member instead of from `result`
BestOfGeneration(chromosomes, i, res) ==
    IF chromosomes = <<>> THEN res
    ELSE BestScan(chromosomes, i, deepcopy(chromosomes[1], 0))

\* lines 179-185 and 194-199: the scan that folds a population into `result`
Track(chromosomes, i, res) == BestScan(chromosomes, i, res)

RECURSIVE MaxScore(_, _)
MaxScore(chromosomes, i) ==
    IF i > Len(chromosomes) THEN 0
    ELSE Max(chromosomes[i].score, MaxScore(chromosomes, i + 1))

\* itertools.chain.from_iterable over the list of pairs
flatten(pre_population) ==
    [i \in 1..(2 * Len(pre_population)) |-> pre_population[(i + 1) \div 2][2 - (i % 2)]]

\* line 177, with cpu_count() = cpus: 0 when size < 2 * cpus, else 1.  Pool.map
\* and Pool.starmap run no task when chunksize is 0: they return a list of None.
chunksize == Min(1, size \div (cpus * 2))

NeverBreaks(flag) == FALSE

\* `if monitor.kill_now: break`
Breaks(flag) == flag

\* the state at the entry of genetic(instance, size, iterations, k, mutations)
\* on a machine of 1..MaxCpus processors; k = size + 1 is a tournament larger
\* than the population
Entry(sizes) ==
    /\ inst \in LoopInstances
    /\ cpus \in 1..MaxCpus
    /\ size \in sizes
    /\ iterations \in 0..MaxIterations
    /\ k \in 1..(size + 1)
    /\ mutations \in 0..MaxMutations
    /\ population = <<>>
    /\ pre = <<>>
    /\ result = NoChromosome
    /\ pc = "setup"
    /\ iteration = 0
    /\ idx = 0
    /\ kill_now = FALSE
    /\ maxScanned = 0 /\ killGen = -1 /\ polls = 0 /\ tracked = 0
    /\ prevBest = 0
    /\ lastT = NoTournament
    /\ last = NoOp

Init == Entry(1..MaxSize)

\* the same with one more population size, so that an odd size above 1 is run
InitWide == Entry(1..(MaxSize + 1))

\* lines 178-187 with chunksize 1 (size >= 2 * cpus): the initial population
\* (each member returned by its own task, so with Library objects of its own)
\* and the first scan
Setup ==
    /\ pc = "setup"
    /\ chunksize > 0
    /\ \E order \in [1..size -> Orderings(NumLibs(Instances[inst]))] :
          /\ population' = [i \in 1..size |-> Chromosome(Instances[inst], order[i], i)]
          /\ result' = Track(population', 1, deepcopy(population'[1], 0))
          /\ maxScanned' = MaxScore(population', 1)
    /\ pc' = IF iterations > 0 THEN "crossover" ELSE "done"
    /\ UNCHANGED <<inst, cpus, size, iterations, k, mutations, pre, iteration, idx,
                   kill_now, killGen, polls, tracked, prevBest, lastT, last>>

\* lines 178-183 with chunksize 0 (size < 2 * cpus): population is
\* [None] * size and the first `pop.score` raises AttributeError
SetupFails ==
    /\ pc = "setup"
    /\ chunksize = 0
    /\ pc' = "crashed"
    /\ UNCHANGED <<inst, cpus, size, iterations, k, mutations, population, pre, result,
                   iteration, idx, kill_now, maxScanned, killGen, polls, tracked,
                   prevBest, lastT, last>>

\* line 190, one task: tournament_and_crossover(population, k); the pair it
\* returns arrives as one object graph, with the Library objects it shares
CrossoverTask ==
    /\ pc = "crossover"
    /\ Len(pre) < size \div 2
    /\ k <= Len(population)
    /\ \E chosenA, chosenB \in Samples(Len(population), k) :
          LET a == population[tournament(population, chosenA)]
              b == population[tournament(population, chosenB)]
              j == Len(pre) + 1
          IN  \E point \in CrossoverPoints(a, b) :
                 LET r == crossover(a, b, point, 2 * j - 1, 2 * j)
                 IN  /\ r.ok
                     /\ pre' = Append(pre, <<r.ap, r.bp>>)
    /\ UNCHANGED <<inst, cpus, size, iterations, k, mutations, population, result, pc,
                   iteration, idx, kill_now, maxScanned, killGen, polls, tracked,
                   prevBest, lastT, last>>

\* line 190, a task raising: sample() with k > len(population)
TournamentFails ==
    /\ pc = "crossover"
    /\ Len(pre) < size \div 2
    /\ k > Len(population)
    /\ pc' = "crashed"
    /\ UNCHANGED <<inst, cpus, size, iterations, k, mutations, population, pre, result,
                   iteration, idx, kill_now, maxScanned, killGen, polls, tracked,
                   prevBest, lastT, last>>

\* line 190, a task raising: randrange(1, split) with split < 2 (or the assertion)
CrossoverFails ==
    /\ pc = "crossover"
    /\ Len(pre) < size \div 2
    /\ k <= Len(population)
    /\ \E chosenA, chosenB \in Samples(Len(population), k) :
          LET a == population[tournament(population, chosenA)]
              b == population[tournament(population, chosenB)]
          IN  \/ CrossoverPoints(a, b) = {}
              \/ \E point \in CrossoverPoints(a, b) : ~crossover(a, b, point, 1, 2).ok
    /\ pc' = "crashed"
    /\ UNCHANGED <<inst, cpus, size, iterations, k, mutations, population, pre, result,
                   iteration, idx, kill_now, maxScanned, killGen, polls, tracked,
                   prevBest, lastT, last>>

\* line 191, once the size // 2 tasks of line 190 have returned
Flatten ==
    /\ pc = "crossover"
    /\ Len(pre) = size \div 2
    /\ population' = flatten(pre)
    /\ pre' = <<>>
    /\ idx' = 0
    /\ pc' = "mutation"
    /\ UNCHANGED <<inst, cpus, size, iterations, k, mutations, result, iteration,
                   kill_now, maxScanned, killGen, polls, tracked, prevBest, lastT,
                   last>>

\* line 192, one task: mutate(pop, mutations) on the copy the worker received;
\* the chromosome returned is unpickled into Library objects of its own (tag
\* size + idx + 1, distinct from the tags 1..size of the children not yet mutated).
\* (randrange(0, 0) cannot raise here: a split of 0 after evaluation means that no
\* library of the instance can claim, and then line 190 has raised already.)
MutateTask ==
    /\ pc = "mutation"
    /\ idx < Len(population)
    /\ \E o \in mutate(Instances[inst], deepcopy(population[idx + 1], size + idx + 1),
                    mutations) :
          /\ o.ok
          /\ population' = [population EXCEPT ![idx + 1] = o.c]
    /\ idx' = idx + 1
    /\ UNCHANGED <<inst, cpus, size, iterations, k, mutations, pre, result, pc, iteration,
                   kill_now, maxScanned, killGen, polls, tracked, prevBest, lastT,
                   last>>

\* lines 194-200, once every task of line 192 has returned
BestTracking ==
    /\ pc = "mutation"
    /\ idx = Len(population)
    /\ result' = Track(population, 1, result)
    /\ maxScanned' = Max(maxScanned, MaxScore(population, 1))
    /\ tracked' = tracked + 1
    /\ prevBest' = result.score
    /\ pc' = "poll"
    /\ UNCHANGED <<inst, cpus, size, iterations, k, mutations, population, pre, iteration,
                   idx, kill_now, killGen, polls, lastT, last>>

\* lines 202-203 and the loop header of line 188
Poll ==
    /\ pc = "poll"
    /\ polls' = polls + 1
    /\ IF Breaks(kill_now)
       THEN /\ pc' = "done"
            /\ UNCHANGED iteration
       ELSE /\ iteration' = iteration + 1
            /\ pc' = IF iteration + 1 < iterations THEN "crossover" ELSE "done"
    /\ UNCHANGED <<inst, cpus, size, iterations, k, mutations, population, pre, result,
                   idx, kill_now, maxScanned, killGen, tracked, prevBest, lastT, last>>

\* the signal handler of GracefulKiller sets the flag, at any moment of the run
Kill ==
    /\ pc \in {"setup", "crossover", "mutation", "poll"}
    /\ ~kill_now
    /\ kill_now' = TRUE
    /\ killGen' = iteration
    /\ UNCHANGED <<inst, cpus, size, iterations, k, mutations, population, pre, result, pc,
                   iteration, idx, maxScanned, polls, tracked, prevBest, lastT, last>>

Next ==
    \/ Setup
    \/ SetupFails
    \/ CrossoverTask
    \/ TournamentFails
    \/ CrossoverFails
    \/ Flatten
    \/ MutateTask
    \/ BestTracking
    \/ Poll
    \/ Kill

Spec == Init /\ [][Next]_vars

SpecWide == InitWide /\ [][Next]_vars

(***************************************************************************)
(* SpecTournament: tournament(chromosomes, k) on populations of freshly    *)
(* constructed chromosomes, for every sample sample() can return.          *)
(***************************************************************************)
MaxPop == 3

InitTournament ==
    /\ inst \in LoopInstances
    /\ \E n \in 1..MaxPop :
          population \in [1..n -> ChromosomeInitialized(Instances[inst], 1)]
    /\ pc = "tournament"
    /\ k = 1
    /\ lastT = NoTournament
    /\ last = NoOp
    /\ cpus = 1
    /\ size = 1 /\ iterations = 0 /\ mutations = 0
    /\ pre = <<>> /\ result = NoChromosome /\ iteration = 0 /\ idx = 0
    /\ kill_now = FALSE /\ maxScanned = 0 /\ killGen = -1 /\ polls = 0 /\ tracked = 0
    /\ prevBest = 0

Tournament ==
    /\ pc = "tournament"
    /\ \E kk \in 1..Len(population) :
          /\ k' = kk
          /\ \E chosen \in Samples(Len(population), kk) :
                lastT' = [chosen |-> chosen, winner |-> tournament(population, chosen)]
    /\ UNCHANGED <<inst, cpus, size, iterations, mutations, population, pre, result, pc,
                   iteration, idx, kill_now, maxScanned, killGen, polls, tracked, prevBest, last>>

NextTournament == Tournament

SpecTournament == InitTournament /\ [][NextTournament]_vars

(***************************************************************************)
(* Properties.                                                             *)
(***************************************************************************)
I0 == Instances[inst]

\* C1: under any sequence of evaluate, mutate, reorder and crossover, every
\* individual's library sequence is a permutation of the instance's libraries:
\* length N, no duplicate id, no missing id (both crossover children included,
\* for every cut point).
C1_AlwaysPermutation ==
    pc = "ops" =>
        \A x \in DOMAIN population : IsPermutation(population[x].libraries, NumLibs(I0))

\* a crossover has just returned two children with different orderings
C1_Witness ==
    /\ pc = "ops"
    /\ last.op = "crossover" /\ last.ok
    /\ population[1].libraries # population[2].libraries
    /\ \A x \in 1..2 : IsPermutation(population[x].libraries, NumLibs(I0))

\* C2: result is replaced only by a population member of strictly greater
\* score, so result.score never decreases; after every scan it is at least the
\* score of every member scanned so far; with iterations = 0 the loop returns the
\* ordering of a maximum-score member of the initial population.
C2_BestEver ==
    /\ [](pc \in {"crossover", "mutation", "poll", "done", "crashed"} =>
             /\ result.score >= maxScanned
             /\ result.score >= prevBest)
    /\ [](pc = "done" /\ iterations = 0 =>
             \E i \in DOMAIN population :
                /\ population[i].score = MaxScore(population, 1)
                /\ result.score = population[i].score
                /\ result.libraries = population[i].libraries)
    /\ [][pc # "setup" /\ result' # result =>
             /\ result'.score > result.score
             /\ \E i \in DOMAIN population : result' = deepcopy(population[i], 0)]_vars

\* a generation's scan has just replaced result by a better member
C2_Witness ==
    /\ pc = "poll"
    /\ result.score > prevBest
    /\ result.score = maxScanned

\* C3: kill_now is read once per generation, after that generation's
\* best-tracking; once it is set during generation g no later generation starts,
\* and the loop ends with the result of generation g.
C3_Cancellation ==
    /\ polls = tracked - (IF pc = "poll" THEN 1 ELSE 0)
    /\ kill_now => /\ iteration <= killGen
                   /\ tracked <= killGen + 1
    /\ (pc = "done" /\ kill_now /\ killGen < iterations) => tracked = killGen + 1

\* the flag was set before the first generation completed, of two asked for
C3_Witness ==
    /\ pc = "done"
    /\ kill_now /\ killGen = 0
    /\ iterations = 2
    /\ tracked = 1 /\ polls = 1

\* C4: the population holds exactly `size` individuals after the setup and in
\* every phase of every generation, for even and odd size.
C4_PopulationSize ==
    pc \in {"crossover", "mutation", "poll", "done"} => Len(population) = size

\* the libraries reorder_libraries moves (below split, books_chosen_num 0) and
\* those it keeps, each in the order of the sequence before the call
Moved(c) == SelectSeq(SubSeq(c.libraries, 1, c.split), LAMBDA id : c.num[id] = 0)

Kept(c) == SelectSeq(c.libraries, LAMBDA id : id \notin Range(Moved(c)))

\* C5 as stated: reorder puts the moved libraries at the end, the moved ones and
\* the others each in their original relative order.
C5_ReorderKeepsOrder ==
    (pc = "ops" /\ last.op = "reorder") =>
        population[last.who].libraries = Kept(last.before) \o Moved(last.before)

\* C5 amended: reorder puts the moved libraries at the end; the others keep
\* their relative order, the moved ones end up in the reverse of it.
C5_ReorderReversesMoved ==
    (pc = "ops" /\ last.op = "reorder") =>
        population[last.who].libraries =
            Kept(last.before) \o Reverse(Moved(last.before))

\* a reorder has just moved two libraries or more, and kept some
C5_Witness ==
    /\ pc = "ops" /\ last.op = "reorder"
    /\ Len(Moved(last.before)) >= 2
    /\ Len(Kept(last.before)) >= 1

\* C6: no two members of the population reference the same Library object.
C6_NoSharedLibrary ==
    \A i, j \in DOMAIN population :
        i # j => \A id \in DOMAIN population[i].obj :
                    population[i].obj[id] # population[j].obj[id]

\* C7: after every call of calculate_split_and_score, score is the sum claimed
\* along the ordering and split is the position of the last library that
\* claimed something in that call, 0 if none did, whatever split the chromosome
\* held before the call.
C7_EvaluateIgnoresOldSplit ==
    (pc = "ops" /\ last.op = "evaluate") =>
        /\ population[last.who].split = LastClaiming(I0, population[last.who].libraries)
        /\ population[last.who].score = score(I0, population[last.who].libraries)

\* an evaluation has just replaced a non-zero split by a smaller one
C7_Witness ==
    /\ pc = "ops" /\ last.op = "evaluate"
    /\ last.before.split > 0
    /\ population[last.who].split < last.before.split
    /\ population[last.who].split = LastClaiming(I0, population[last.who].libraries)

RECURSIVE NonDecreasing(_)
NonDecreasing(s) ==
    Len(s) < 2 \/ (s[1] <= s[2] /\ NonDecreasing(Tail(s)))

\* C8: the score evaluated after every attempt of mutate(c, times) is at least
\* the score evaluated before it, hence the one after the call at least the one
\* before; the ordering changes only with a strictly greater score.
C8_MutateNeverDecreases ==
    (pc = "ops" /\ last.op = "mutate") =>
        /\ NonDecreasing(<<last.sc0>> \o last.trace)
        /\ score(I0, population[last.who].libraries) >= last.sc0
        /\ population[last.who].libraries # last.before.libraries =>
               score(I0, population[last.who].libraries) > last.sc0

\* a mutate call of two attempts has just improved the score twice
C8_Witness ==
    /\ pc = "ops" /\ last.op = "mutate" /\ last.ok
    /\ Len(last.trace) = 2
    /\ last.sc0 < last.trace[1] /\ last.trace[1] < last.trace[2]
    /\ score(I0, population[last.who].libraries) = last.trace[2]

\* C9: tournament returns a member of the population it was given: among the
\* sampled ones the earliest that holds the greatest sampled score (the first
\* sampled when all scores are 0); with k = len(population) its score is the
\* greatest of the population.
C9_Tournament ==
    (pc = "tournament" /\ lastT # NoTournament) =>
        LET chosen == lastT.chosen
            w      == lastT.winner
            sc(i)  == population[chosen[i]].score
        IN  /\ w \in DOMAIN population
            /\ \E p \in 1..Len(chosen) :
                  /\ chosen[p] = w
                  /\ \A i \in 1..Len(chosen) : sc(i) <= sc(p)
                  /\ \A i \in 1..(p - 1) : sc(i) < sc(p)
            /\ (\A i \in 1..Len(chosen) : sc(i) = 0) => w = chosen[1]
            /\ Len(chosen) = Len(population) =>
                  population[w].score = MaxScore(population, 1)

\* three were sampled; the second and third tie at the top and the second won
C9_Witness ==
    /\ pc = "tournament" /\ lastT # NoTournament
    /\ Len(lastT.chosen) = 3
    /\ lastT.winner = lastT.chosen[2]
    /\ population[lastT.chosen[1]].score < population[lastT.chosen[2]].score
    /\ population[lastT.chosen[2]].score = population[lastT.chosen[3]].score

\* C10: from the end of the setup on, at every generation boundary and at the
\* return, result.score is the score its ordering evaluates to, also with
\* mutations = 0, where the children carry the score of a parent.
C10_BestEverFresh ==
    pc \in {"crossover", "mutation", "poll", "done"} =>
        result.score = score(I0, result.libraries)

\* the loop has returned after a generation without mutation attempts, and a
\* member of the population carries a score its ordering does not evaluate to
C10_Witness ==
    /\ pc = "done"
    /\ mutations = 0 /\ tracked >= 1
    /\ \E i \in DOMAIN population :
          population[i].score # score(I0, population[i].libraries)
    /\ result.score = score(I0, result.libraries)

====
